---- MODULE Spec2Model ----
(***************************************************************************)
(* Kid Draughts API: the PDN notation formatter (pdn.js), the request      *)
(* handlers of the current server (index.js with Events + Games + Players  *)
(* + PDN export) and of the earlier server (index.js with Events +         *)
(* Players only), and the MongoDB collections they share.                  *)
(***************************************************************************)
EXTENDS Integers, Sequences, FiniteSets, TLC

VARIABLES
    events,     \* the events collection, in insertion order
    players,    \* the players collection (a set of documents)
    games,      \* the games collection (a set of documents)
    now,        \* the server clock, Date.now() / new Date()
    reqs,       \* POST /roblox/events handlers suspended between their two awaits
    last,       \* the response sent last (code 0: the request was never answered)
    hist,       \* per eventId: how its accepted requests ended (history)
    faultSeen,  \* whether a store call of POST /roblox/events ever failed for a
                \* reason outside the request (network, server down)
    pdnIn,      \* formatter bench: the game description handed to generatePDN
    pdnOut      \* formatter bench: what generatePDN returned for it

vars == <<events, players, games, now, reqs, last, hist, faultSeen, pdnIn, pdnOut>>
storeVars == <<events, players, games, now, reqs, last, hist, faultSeen>>

----------------------------------------------------------------------------
\* Bounds of the model.
MaxTime == 1          \* the clock runs 0..MaxTime
MaxMoves == 3         \* longest move list handed to the formatter bench
MaxInflight == 2      \* event handlers that may be suspended at once
MaxCalls == 2         \* accepted POST /roblox/events requests per eventId

----------------------------------------------------------------------------
\* JavaScript values.  A string field that is absent is UNDEF, one that is
\* null is NULL; a numeric field that is absent is UNDEF_NUM; an object
\* field (white, black) that is absent or null is NULL_OBJ; a moves field
\* that is not an array is NO_ARRAY.
UNDEF == "undefined"
NULL == "null"
UNDEF_NUM == 0 - 1
NULL_OBJ == [userId |-> UNDEF_NUM, display |-> UNDEF]
NO_ARRAY == [isArray |-> FALSE, plies |-> <<>>]
Arr(s) == [isArray |-> TRUE, plies |-> s]

\* JS truthiness of a string, a number, an object.
TruthyStr(s) == s # UNDEF /\ s # NULL /\ s # ""
TruthyNum(n) == n # UNDEF_NUM /\ n # 0
TruthyObj(o) == o # NULL_OBJ

\* `s || d` on strings, `s || null`, `o || null`.
OrStr(s, d) == IF TruthyStr(s) THEN s ELSE d
OrNull(s) == OrStr(s, NULL)

\* toInt(n, fallback): Number(n) when finite, else the fallback.
toInt(n, fallback) == IF n = UNDEF_NUM THEN fallback ELSE n

----------------------------------------------------------------------------
\* pdn.js

gameTypeForVariant(variant) ==
    CASE variant = "International" -> "20"
      [] variant = "Brazilian" -> "26"
      [] variant = "Turkish" -> "30"
      [] OTHER -> "20"

Pad2(n) == IF n < 10 THEN "0" \o ToString(n) ELSE ToString(n)

\* `${yyyy}.${mm}.${dd}` of new Date(): the clock counts days of January 2026.
DateTag(t) == "2026." \o Pad2(1) \o "." \o Pad2(t + 1)

\* A ply is modelled by its `?.notation`: UNDEF for a null or missing ply and
\* for a ply object without notation.
PlyAt(plies, i) == IF i <= Len(plies) THEN plies[i] ELSE UNDEF

\* p?.display
DisplayOf(p) == IF TruthyObj(p) THEN p.display ELSE UNDEF

\* game.moves || []
MovesOf(game) == IF game.moves.isArray THEN game.moves.plies ELSE <<>>

\* A mutant: the loop also stops at a pair whose black ply has no notation.
RECURSIVE MovePairsStopAtBlack(_, _, _)
MovePairsStopAtBlack(plies, i, moveNo) ==
    IF i > Len(plies) THEN <<>>
    ELSE LET w == PlyAt(plies, i)
             b == PlyAt(plies, i + 1)
         IN  IF ~TruthyStr(w) THEN <<>>
             ELSE IF ~TruthyStr(b) THEN <<ToString(moveNo) \o ".", w>>
             ELSE <<ToString(moveNo) \o ".", w, b>>
                  \o MovePairsStopAtBlack(plies, i + 2, moveNo + 1)

\* The movetext loop, from the pair whose white ply is plies[i] (1-based):
\* the tokens it appends, each followed by one space in the string.
RECURSIVE MovePairs(_, _, _)
MovePairs(plies, i, moveNo) ==
    IF i > Len(plies) THEN <<>>
    ELSE LET w == PlyAt(plies, i)
             b == PlyAt(plies, i + 1)
         IN  IF ~TruthyStr(w) THEN <<>>
             ELSE <<ToString(moveNo) \o ".", w>>
                  \o (IF TruthyStr(b) THEN <<b>> ELSE <<>>)
                  \o MovePairs(plies, i + 2, moveNo + 1)

\* The tokens joined by single spaces: the movetext string.
RECURSIVE Join(_)
Join(toks) ==
    IF Len(toks) = 0 THEN ""
    ELSE IF Len(toks) = 1 THEN toks[1]
    ELSE toks[1] \o " " \o Join(Tail(toks))

PdnTags(game, t) ==
    [Event |-> "Kid Draughts",
     Site |-> "Roblox",
     Date |-> DateTag(t),
     Round |-> "?",
     White |-> OrStr(DisplayOf(game.white), "White"),
     Black |-> OrStr(DisplayOf(game.black), "Black"),
     Result |-> OrStr(game.result, "*"),
     GameType |-> gameTypeForVariant(OrStr(game.variant, "International"))]

MoveTokens(game, t) ==
    MovePairs(MovesOf(game), 1, 1) \o <<PdnTags(game, t).Result>>

TagLine(k, v) == "[" \o k \o " \"" \o v \o "\"]"

TagText(tags) ==
    TagLine("Event", tags.Event) \o "\n" \o TagLine("Site", tags.Site) \o "\n"
    \o TagLine("Date", tags.Date) \o "\n" \o TagLine("Round", tags.Round) \o "\n"
    \o TagLine("White", tags.White) \o "\n" \o TagLine("Black", tags.Black) \o "\n"
    \o TagLine("Result", tags.Result) \o "\n" \o TagLine("GameType", tags.GameType)

\* generatePDN(game) at clock t.  The text starts with "[" and ends with the
\* Result token, so trim() removes nothing for results without whitespace.
generatePDN(game, t) ==
    LET tags == PdnTags(game, t)
        toks == MoveTokens(game, t)
    IN  [tags |-> tags,
         movetext |-> toks,
         text |-> TagText(tags) \o "\n\n" \o Join(toks)]

----------------------------------------------------------------------------
\* MongoDB: the update documents of updateOne and what the server does with
\* them.  A modifier ($set, $inc, $setOnInsert) maps field paths to values.

NoMods == [p \in {} |-> 0]

IsPrefix(p, q) == Len(p) <= Len(q) /\ SubSeq(q, 1, Len(p)) = p

ModPaths(u) ==
    {<<"$set", p>> : p \in DOMAIN u.set}
    \cup {<<"$inc", p>> : p \in DOMAIN u.inc}
    \cup {<<"$setOnInsert", p>> : p \in DOMAIN u.setOnInsert}

\* The server parses all modifiers of an update into one tree of paths and
\* rejects the update (ConflictingUpdateOperators, "Updating the path
\* 'totals.games' would create a conflict at 'totals'") when the path of one
\* entry is the path of another or a prefix of it, whether or not the update
\* ends up inserting.
ConflictingUpdate(u) ==
    \E a \in ModPaths(u) : \E b \in ModPaths(u) : a # b /\ IsPrefix(a[2], b[2])

SetPath(doc, p, v) ==
    IF Len(p) = 1 THEN [doc EXCEPT ![p[1]] = v]
    ELSE [doc EXCEPT ![p[1]][p[2]] = v]

GetPath(doc, p) == IF Len(p) = 1 THEN doc[p[1]] ELSE doc[p[1]][p[2]]

RECURSIVE SetAll(_, _, _)
SetAll(doc, m, ps) ==
    IF ps = {} THEN doc
    ELSE LET p == CHOOSE x \in ps : TRUE
         IN  SetAll(SetPath(doc, p, m[p]), m, ps \ {p})

\* $inc creates a missing field with the increment as its value.
RECURSIVE IncAll(_, _, _)
IncAll(doc, m, ps) ==
    IF ps = {} THEN doc
    ELSE LET p == CHOOSE x \in ps : TRUE
             cur == GetPath(doc, p)
         IN  IncAll(SetPath(doc, p, (IF cur = UNDEF_NUM THEN 0 ELSE cur) + m[p]),
                    m, ps \ {p})

\* The document an accepted update leaves: $setOnInsert applies only when the
\* update inserts.
ApplyMods(doc, u, inserting) ==
    LET d1 == IF inserting THEN SetAll(doc, u.setOnInsert, DOMAIN u.setOnInsert)
              ELSE doc
        d2 == SetAll(d1, u.set, DOMAIN u.set)
    IN  IncAll(d2, u.inc, DOMAIN u.inc)

----------------------------------------------------------------------------
\* POST /roblox/events: both servers.  "v2" is the server with games and PDN
\* export, "v1" the server with events and players only.

Handlers == {"v1", "v2"}
EventIds == {"e1", "e2"}
UserIds == {0, 1}
EventTypes == {"match_end", "lesson_step_completed", "login"}

\* Request bodies of /roblox/events: the accepted ones, and one of them with
\* each required field missing or falsy in turn.
BaseEvent == [eventId |-> "e1", userId |-> 1, type |-> "match_end", ts |-> 1]
EventBodies ==
    [eventId : {"e1"}, userId : {1}, type : EventTypes, ts : {1}]
    \cup {[eventId |-> "e2", userId |-> 1, type |-> "match_end", ts |-> 1],
          [eventId |-> "e2", userId |-> 0, type |-> "login", ts |-> 1],
          [BaseEvent EXCEPT !.eventId = UNDEF],
          [BaseEvent EXCEPT !.userId = UNDEF_NUM],
          [BaseEvent EXCEPT !.type = UNDEF],
          [BaseEvent EXCEPT !.ts = UNDEF_NUM],
          [BaseEvent EXCEPT !.ts = 0]}

\* The required-field check of the earlier server: `!userId`.
ValidEventV1(b) ==
    TruthyStr(b.eventId) /\ TruthyNum(b.userId) /\ TruthyStr(b.type) /\ TruthyNum(b.ts)

\* The required-field check of the current server: `userId === undefined`.
ValidEventV2(b) ==
    TruthyStr(b.eventId) /\ b.userId # UNDEF_NUM /\ TruthyStr(b.type) /\ TruthyNum(b.ts)

ValidEvent(h, b) == IF h = "v1" THEN ValidEventV1(b) ELSE ValidEventV2(b)

\* The document insertOne is given (the fields copied through unchanged,
\* gameId, correlationId, sessionId, schemaVersion, data, are left out).
EventDoc(b, t) ==
    [eventId |-> b.eventId,
     userId |-> toInt(b.userId, 0),
     type |-> b.type,
     ts |-> toInt(b.ts, 0),
     receivedAt |-> t]

\* The unique index on eventId: insertOne fails with E11000 on a duplicate.
DuplicateKey(coll, doc) == \E i \in 1..Len(coll) : coll[i].eventId = doc.eventId

\* const inc = {}; the counter selected by the event's type.
IncFor(type) ==
    IF type = "match_end" THEN <<"totals", "games">> :> 1
    ELSE IF type = "lesson_step_completed" THEN <<"totals", "lessonSteps">> :> 1
    ELSE NoMods

\* The update document of Players.updateOne.
PlayerUpdate(h, b, t) ==
    [set |-> IF h = "v1"
             THEN (<<"lastSeenAt">> :> toInt(b.ts, 0) * 1000)
                  @@ (<<"lastEventType">> :> b.type)
             ELSE (<<"lastSeenAt">> :> toInt(b.ts, 0) * 1000)
                  @@ (<<"lastEventType">> :> b.type)
                  @@ (<<"lastEventAt">> :> t),
     inc |-> IncFor(b.type),
     setOnInsert |-> (<<"createdAt">> :> t)
                     @@ (<<"totals">> :> [games |-> 0, lessonSteps |-> 0])]

BlankPlayer(uid) ==
    [userId |-> uid,
     lastSeenAt |-> UNDEF_NUM,
     lastEventType |-> UNDEF,
     lastEventAt |-> UNDEF_NUM,
     createdAt |-> UNDEF_NUM,
     totals |-> [games |-> UNDEF_NUM, lessonSteps |-> UNDEF_NUM]]

PlayersOf(coll, uid) == {d \in coll : d.userId = uid}

\* Players.updateOne({userId}, update, {upsert: true}), accepted by the server.
PlayersUpdateOne(coll, uid, u) ==
    IF PlayersOf(coll, uid) = {}
    THEN coll \cup {ApplyMods(BlankPlayer(uid), u, TRUE)}
    ELSE LET d == CHOOSE x \in PlayersOf(coll, uid) : TRUE
         IN  (coll \ {d}) \cup {ApplyMods(d, u, FALSE)}

Slots == 1..MaxInflight
Idle == [pc |-> "idle"]

NoHist == [calls |-> 0, fresh |-> 0, deduped |-> 0, merged |-> 0, unanswered |-> 0]

Response(op, code, payload) == [op |-> op, code |-> code, payload |-> payload]

InFlight(e) == \E s \in Slots : reqs[s].pc = "inserted" /\ reqs[s].body.eventId = e

\* A request with a missing field: 400 before any store access.
RecordEventReject(h, b) ==
    /\ ~ValidEvent(h, b)
    /\ last' = Response("RecordEvent", 400, "missing_fields")
    /\ UNCHANGED <<events, players, games, now, reqs, hist, faultSeen, pdnIn, pdnOut>>

\* The handler up to the end of `await Events.insertOne`: a store failure
\* answers 500, a duplicate key answers ok + deduped, and otherwise the
\* handler goes on to the Player update.
RecordEventInsert(h, b, s, fault) ==
    /\ ValidEvent(h, b)
    /\ reqs[s].pc = "idle"
    /\ hist[b.eventId].calls < MaxCalls
    /\ IF fault
       THEN /\ last' = Response("RecordEvent", 500, "db_error")
            /\ hist' = [hist EXCEPT ![b.eventId].calls = @ + 1]
            /\ faultSeen' = TRUE
            /\ UNCHANGED <<events, reqs>>
       ELSE IF DuplicateKey(events, EventDoc(b, now))
       THEN /\ last' = Response("RecordEvent", 200, "ok,deduped")
            /\ hist' = [hist EXCEPT ![b.eventId].calls = @ + 1,
                                    ![b.eventId].deduped = @ + 1]
            /\ UNCHANGED <<events, reqs, faultSeen>>
       ELSE /\ events' = Append(events, EventDoc(b, now))
            /\ reqs' = [reqs EXCEPT ![s] = [pc |-> "inserted", h |-> h, body |-> b]]
            /\ hist' = [hist EXCEPT ![b.eventId].calls = @ + 1]
            /\ UNCHANGED <<last, faultSeen>>
    /\ UNCHANGED <<players, games, now, pdnIn, pdnOut>>

\* The rest of the handler: Players.updateOne and the response.  The current
\* server catches and logs a failed update and answers ok; the earlier server
\* awaits it outside any try, so a failure rejects the handler's promise and
\* the request is never answered.
RecordEventUpdate(s, fault) ==
    /\ reqs[s].pc = "inserted"
    /\ LET h == reqs[s].h
           b == reqs[s].body
           u == PlayerUpdate(h, b, now)
           failed == fault \/ ConflictingUpdate(u)
       IN  /\ players' = IF failed THEN players
                         ELSE PlayersUpdateOne(players, toInt(b.userId, 0), u)
           /\ last' = IF failed /\ h = "v1"
                      THEN Response("RecordEvent", 0, "unanswered")
                      ELSE Response("RecordEvent", 200, "ok")
           /\ hist' = [hist EXCEPT
                 ![b.eventId].fresh = IF failed /\ h = "v1" THEN @ ELSE @ + 1,
                 ![b.eventId].unanswered = IF failed /\ h = "v1" THEN @ + 1 ELSE @,
                 ![b.eventId].merged = IF failed THEN @ ELSE @ + 1]
           /\ faultSeen' = (faultSeen \/ fault)
    /\ reqs' = [reqs EXCEPT ![s] = Idle]
    /\ UNCHANGED <<events, games, now, pdnIn, pdnOut>>

\* GET /players/:userId/summary (the same in both servers).
GetPlayerSummary(uid) ==
    /\ last' = Response("GetPlayerSummary", 200,
                 IF PlayersOf(players, uid) = {}
                 THEN [userId |-> uid, totals |-> [games |-> 0, lessonSteps |-> 0]]
                 ELSE CHOOSE d \in PlayersOf(players, uid) : TRUE)
    /\ UNCHANGED <<events, players, games, now, reqs, hist, faultSeen, pdnIn, pdnOut>>

----------------------------------------------------------------------------
\* Games: POST /roblox/games/upsert, POST /roblox/games/finalize and
\* GET /games/:gameId/pdn of the current server.

GameIds == {"g1", "g2"}

Ann == [userId |-> 1, display |-> "Ann"]
Bo == [userId |-> 2, display |-> "Bo"]
Anon == [userId |-> 3, display |-> UNDEF]

NO_TAGS ==
    [Event |-> UNDEF, Site |-> UNDEF, Date |-> UNDEF, Round |-> UNDEF,
     White |-> UNDEF, Black |-> UNDEF, Result |-> UNDEF, GameType |-> UNDEF]
NO_PDN == [tags |-> NO_TAGS, text |-> UNDEF]

\* A Game document none of whose fields is set yet, but the query's gameId.
BlankGame(gid) ==
    [gameId |-> gid, createdAt |-> UNDEF_NUM, updatedAt |-> UNDEF_NUM,
     endAt |-> UNDEF_NUM, status |-> UNDEF, mode |-> UNDEF, variant |-> UNDEF,
     rated |-> FALSE, timeControl |-> UNDEF, white |-> NULL_OBJ,
     black |-> NULL_OBJ, correlationId |-> UNDEF, startFen |-> UNDEF,
     result |-> UNDEF, endReason |-> UNDEF, finalFen |-> UNDEF,
     moves |-> NO_ARRAY, stats |-> UNDEF, ratings |-> UNDEF, pdn |-> NO_PDN]

\* Request bodies of /roblox/games/upsert: two headers, and the first with
\* each required field missing in turn, for game g1 and without gameId.
HeaderA ==
    [gameId |-> UNDEF, variant |-> "International", white |-> Ann, black |-> Bo,
     startFen |-> "W:W31-50:B1-20", mode |-> UNDEF, rated |-> FALSE,
     timeControl |-> UNDEF, correlationId |-> UNDEF]
HeaderB ==
    [gameId |-> UNDEF, variant |-> "Turkish", white |-> Bo, black |-> Anon,
     startFen |-> "W:W9-24:B41-56", mode |-> "ai", rated |-> TRUE,
     timeControl |-> "5+0", correlationId |-> "c1"]
HeaderTemplates ==
    {HeaderA, HeaderB,
     [HeaderA EXCEPT !.variant = UNDEF], [HeaderA EXCEPT !.white = NULL_OBJ],
     [HeaderA EXCEPT !.black = NULL_OBJ], [HeaderA EXCEPT !.startFen = ""]}
UpsertBodies ==
    {[h EXCEPT !.gameId = g] : h \in HeaderTemplates, g \in {"g1", UNDEF}}

\* Request bodies of /roblox/games/finalize: two results, and the first with
\* each required field missing in turn, for game g1 and without gameId; the
\* first for game g2, which only ever gets finalized.
FinalA ==
    [gameId |-> UNDEF, result |-> "1-0", finalFen |-> "W:W28:B", 
     moves |-> Arr(<<"32-28", "19-23", "28x19">>), variant |-> UNDEF,
     white |-> NULL_OBJ, black |-> NULL_OBJ, mode |-> UNDEF, rated |-> FALSE,
     timeControl |-> UNDEF, correlationId |-> UNDEF, endReason |-> UNDEF,
     stats |-> UNDEF, ratings |-> UNDEF]
FinalB ==
    [gameId |-> UNDEF, result |-> "0-1", finalFen |-> "B:W:B19",
     moves |-> Arr(<<"32-28", UNDEF, "28x19", "19-23">>), variant |-> "Brazilian",
     white |-> Ann, black |-> Anon, mode |-> "ai", rated |-> TRUE,
     timeControl |-> "5+0", correlationId |-> "c2", endReason |-> "resign",
     stats |-> "stats", ratings |-> "ratings"]
FinalTemplates ==
    {FinalA, FinalB,
     [FinalA EXCEPT !.result = UNDEF], [FinalA EXCEPT !.finalFen = UNDEF],
     [FinalA EXCEPT !.moves = NO_ARRAY]}
FinalBodies ==
    {[f EXCEPT !.gameId = g] : f \in FinalTemplates, g \in {"g1", UNDEF}}
    \cup {[FinalA EXCEPT !.gameId = "g2"]}

ValidHeader(g) ==
    /\ TruthyStr(g.gameId) /\ TruthyStr(g.variant) /\ TruthyObj(g.white)
    /\ TruthyObj(g.black) /\ TruthyStr(g.startFen)

ValidFinal(g) ==
    TruthyStr(g.gameId) /\ TruthyStr(g.result) /\ TruthyStr(g.finalFen) /\ g.moves.isArray

GamesOf(coll, gid) == {d \in coll : d.gameId = gid}

\* A mutant: the upsert writes createdAt with $set.
UpsertSetStampingCreated(d, g, t) ==
    [d EXCEPT !.updatedAt = t, !.createdAt = t,
              !.mode = OrStr(g.mode, "pvp"), !.variant = g.variant,
              !.rated = g.rated, !.timeControl = OrNull(g.timeControl),
              !.white = g.white, !.black = g.black,
              !.correlationId = OrNull(g.correlationId), !.startFen = g.startFen]

\* A mutant: the upsert writes status with $set.
UpsertSetReopening(d, g, t) ==
    [d EXCEPT !.updatedAt = t, !.status = "running",
              !.mode = OrStr(g.mode, "pvp"), !.variant = g.variant,
              !.rated = g.rated, !.timeControl = OrNull(g.timeControl),
              !.white = g.white, !.black = g.black,
              !.correlationId = OrNull(g.correlationId), !.startFen = g.startFen]

\* $set of /roblox/games/upsert.
UpsertSet(d, g, t) ==
    [d EXCEPT !.updatedAt = t, !.mode = OrStr(g.mode, "pvp"), !.variant = g.variant,
              !.rated = g.rated, !.timeControl = OrNull(g.timeControl),
              !.white = g.white, !.black = g.black,
              !.correlationId = OrNull(g.correlationId), !.startFen = g.startFen]

\* $setOnInsert of /roblox/games/upsert.
UpsertSetOnInsert(d, g, t) ==
    [d EXCEPT !.gameId = g.gameId, !.createdAt = t, !.status = "running"]

\* The game description /roblox/games/finalize hands to generatePDN.
FinalPdnInput(g) ==
    [variant |-> OrStr(g.variant, "International"),
     white |-> IF TruthyObj(g.white) THEN g.white
               ELSE [userId |-> UNDEF_NUM, display |-> "White"],
     black |-> IF TruthyObj(g.black) THEN g.black
               ELSE [userId |-> UNDEF_NUM, display |-> "Black"],
     result |-> g.result,
     moves |-> g.moves]

\* A mutant: the finalize writes createdAt with $set.
FinalSetStampingCreated(d, g, t) ==
    LET pdn == generatePDN(FinalPdnInput(g), t)
    IN  [d EXCEPT !.updatedAt = t, !.endAt = t, !.createdAt = t,
                  !.status = "finished",
                  !.mode = OrStr(g.mode, "pvp"),
                  !.variant = OrStr(g.variant, "International"),
                  !.rated = g.rated, !.timeControl = OrNull(g.timeControl),
                  !.white = g.white, !.black = g.black,
                  !.correlationId = OrNull(g.correlationId),
                  !.result = g.result, !.endReason = OrNull(g.endReason),
                  !.finalFen = g.finalFen, !.moves = g.moves,
                  !.stats = OrNull(g.stats), !.ratings = OrNull(g.ratings),
                  !.pdn = [tags |-> pdn.tags, text |-> pdn.text]]

\* A mutant: the finalize keeps the moves the record already has.
FinalSetKeepingMoves(d, g, t) ==
    LET pdn == generatePDN(FinalPdnInput(g), t)
    IN  [d EXCEPT !.updatedAt = t, !.endAt = t, !.status = "finished",
                  !.mode = OrStr(g.mode, "pvp"),
                  !.variant = OrStr(g.variant, "International"),
                  !.rated = g.rated, !.timeControl = OrNull(g.timeControl),
                  !.white = g.white, !.black = g.black,
                  !.correlationId = OrNull(g.correlationId),
                  !.result = g.result, !.endReason = OrNull(g.endReason),
                  !.finalFen = g.finalFen,
                  !.moves = IF d.moves.isArray THEN d.moves ELSE g.moves,
                  !.stats = OrNull(g.stats), !.ratings = OrNull(g.ratings),
                  !.pdn = [tags |-> pdn.tags, text |-> pdn.text]]

\* $set of /roblox/games/finalize (`g.white || null` is NULL_OBJ again).
FinalSet(d, g, t) ==
    LET pdn == generatePDN(FinalPdnInput(g), t)
    IN  [d EXCEPT !.updatedAt = t, !.endAt = t, !.status = "finished",
                  !.mode = OrStr(g.mode, "pvp"),
                  !.variant = OrStr(g.variant, "International"),
                  !.rated = g.rated, !.timeControl = OrNull(g.timeControl),
                  !.white = g.white, !.black = g.black,
                  !.correlationId = OrNull(g.correlationId),
                  !.result = g.result, !.endReason = OrNull(g.endReason),
                  !.finalFen = g.finalFen, !.moves = g.moves,
                  !.stats = OrNull(g.stats), !.ratings = OrNull(g.ratings),
                  !.pdn = [tags |-> pdn.tags, text |-> pdn.text]]

\* $setOnInsert of /roblox/games/finalize.
FinalSetOnInsert(d, g, t) == [d EXCEPT !.createdAt = t]

\* Games.updateOne({gameId}, ..., {upsert: true}) of /roblox/games/upsert.
GamesUpsertHeader(coll, g, t) ==
    IF GamesOf(coll, g.gameId) = {}
    THEN coll \cup {UpsertSet(UpsertSetOnInsert(BlankGame(g.gameId), g, t), g, t)}
    ELSE LET d == CHOOSE x \in GamesOf(coll, g.gameId) : TRUE
         IN  (coll \ {d}) \cup {UpsertSet(d, g, t)}

\* Games.updateOne({gameId}, ..., {upsert: true}) of /roblox/games/finalize.
GamesFinalize(coll, g, t) ==
    IF GamesOf(coll, g.gameId) = {}
    THEN coll \cup {FinalSet(FinalSetOnInsert(BlankGame(g.gameId), g, t), g, t)}
    ELSE LET d == CHOOSE x \in GamesOf(coll, g.gameId) : TRUE
         IN  (coll \ {d}) \cup {FinalSet(d, g, t)}

\* POST /roblox/games/upsert.  The handler has no catch: a store failure
\* rejects its promise and the request is never answered.
UpsertGameHeader(g, fault) ==
    /\ IF ~ValidHeader(g)
       THEN /\ last' = Response("UpsertGameHeader", 400, "missing_fields")
            /\ UNCHANGED games
       ELSE IF fault
       THEN /\ last' = Response("UpsertGameHeader", 0, "unanswered")
            /\ UNCHANGED games
       ELSE /\ games' = GamesUpsertHeader(games, g, now)
            /\ last' = Response("UpsertGameHeader", 200, "ok")
    /\ UNCHANGED <<events, players, now, reqs, hist, faultSeen, pdnIn, pdnOut>>

\* POST /roblox/games/finalize.
FinalizeGame(g, fault) ==
    /\ IF ~ValidFinal(g)
       THEN /\ last' = Response("FinalizeGame", 400, "missing_fields")
            /\ UNCHANGED games
       ELSE IF fault
       THEN /\ last' = Response("FinalizeGame", 0, "unanswered")
            /\ UNCHANGED games
       ELSE /\ games' = GamesFinalize(games, g, now)
            /\ last' = Response("FinalizeGame", 200, "ok")
    /\ UNCHANGED <<events, players, now, reqs, hist, faultSeen, pdnIn, pdnOut>>

\* A mutant: the export stores the text it computed.
ExportStoreCaching(coll, gid, t) ==
    {IF d.gameId = gid /\ ~TruthyStr(d.pdn.text)
     THEN [d EXCEPT !.pdn = [tags |-> generatePDN(d, t).tags,
                             text |-> generatePDN(d, t).text]]
     ELSE d : d \in coll}

\* The games collection after GET /games/:gameId/pdn: findOne writes nothing.
ExportStore(coll, gid, t) == coll

\* The response of GET /games/:gameId/pdn.
ExportResponse(coll, gid, t) ==
    IF GamesOf(coll, gid) = {}
    THEN Response("ExportPDN", 404, "Not found")
    ELSE LET g == CHOOSE x \in GamesOf(coll, gid) : TRUE
         IN  IF TruthyStr(g.pdn.text)
             THEN Response("ExportPDN", 200, g.pdn.text)
             ELSE Response("ExportPDN", 200, generatePDN(g, t).text)

ExportPDN(gid) ==
    /\ last' = ExportResponse(games, gid, now)
    /\ games' = ExportStore(games, gid, now)
    /\ UNCHANGED <<events, players, now, reqs, hist, faultSeen, pdnIn, pdnOut>>

\* Time passes.
Tick ==
    /\ now < MaxTime
    /\ now' = now + 1
    /\ UNCHANGED <<events, players, games, reqs, last, hist, faultSeen, pdnIn, pdnOut>>

----------------------------------------------------------------------------
\* The servers on an empty database.

NoInput == [variant |-> UNDEF, white |-> NULL_OBJ, black |-> NULL_OBJ,
            result |-> UNDEF, moves |-> NO_ARRAY]
NoOutput == [tags |-> NO_TAGS, movetext |-> <<>>, text |-> UNDEF]

InitStore ==
    /\ events = <<>>
    /\ players = {}
    /\ games = {}
    /\ now = 0
    /\ reqs = [s \in Slots |-> Idle]
    /\ last = Response("none", 0, UNDEF)
    /\ hist = [e \in EventIds |-> NoHist]
    /\ faultSeen = FALSE

Init == InitStore /\ pdnIn = NoInput /\ pdnOut = NoOutput

NextEvents ==
    \/ \E h \in Handlers, b \in EventBodies : RecordEventReject(h, b)
    \/ \E h \in Handlers, b \in EventBodies, s \in Slots, fault \in BOOLEAN :
          RecordEventInsert(h, b, s, fault)
    \/ \E s \in Slots, fault \in BOOLEAN : RecordEventUpdate(s, fault)
    \/ \E uid \in UserIds : GetPlayerSummary(uid)
    \/ Tick

NextGames ==
    \/ \E g \in UpsertBodies, fault \in BOOLEAN : UpsertGameHeader(g, fault)
    \/ \E g \in FinalBodies, fault \in BOOLEAN : FinalizeGame(g, fault)
    \/ \E gid \in GameIds : ExportPDN(gid)
    \/ Tick

Next == NextEvents \/ NextGames

\* The game handlers next to one client of /roblox/events.
NextLifecycle ==
    \/ NextGames
    \/ RecordEventReject("v2", [BaseEvent EXCEPT !.ts = 0])
    \/ RecordEventInsert("v2", BaseEvent, 1, FALSE)
    \/ RecordEventUpdate(1, FALSE)
    \/ GetPlayerSummary(1)

Spec == Init /\ [][Next]_vars
SpecLifecycle == Init /\ [][NextLifecycle]_vars
SpecEvents == Init /\ [][NextEvents]_vars
SpecGames == Init /\ [][NextGames]_vars

----------------------------------------------------------------------------
\* The formatter on its own: generatePDN applied to one game description.

\* The ply at position i carries the notation "m<i>", so that a notation in
\* the movetext names its ply.
Notation(i) == "m" \o ToString(i)

\* The move lists of length n whose plies at the positions in gaps are null.
MoveList(n, gaps) == [i \in 1..n |-> IF i \in gaps THEN UNDEF ELSE Notation(i)]

MoveLists == {MoveList(n, gaps) : n \in 0..MaxMoves, gaps \in SUBSET (1..MaxMoves)}

PdnInputs ==
    [variant : {UNDEF, "Turkish"},
     white : {NULL_OBJ, Ann},
     black : {Anon},
     result : {UNDEF, "1-0"},
     moves : {Arr(m) : m \in MoveLists} \cup {NO_ARRAY}]

InitPDN == InitStore /\ pdnIn \in PdnInputs /\ pdnOut = NoOutput

Format ==
    /\ pdnOut = NoOutput
    /\ pdnOut' = generatePDN(pdnIn, now)
    /\ UNCHANGED <<storeVars, pdnIn>>

NextPDN == Format \/ Tick

SpecPDN == InitPDN /\ [][NextPDN]_vars

----------------------------------------------------------------------------
\* Properties.

EventsWith(e) == {i \in 1..Len(events) : events[i].eventId = e}
AllIdle == \A s \in Slots : reqs[s].pc = "idle"

\* C1: once two or more requests with the same eventId have been handled
\* (none still between its store calls, no store outage), exactly one of them
\* was answered plain ok and every other ok + deduped, exactly one Event
\* record with that eventId exists, and the Player aggregate was merged for
\* it exactly once.
C1_DedupMergesOnce ==
    \A e \in EventIds :
        (~faultSeen /\ ~InFlight(e) /\ hist[e].calls >= 2)
        => /\ hist[e].fresh = 1
           /\ hist[e].deduped = hist[e].calls - 1
           /\ Cardinality(EventsWith(e)) = 1
           /\ hist[e].merged = 1

MatchEnds(u) ==
    {i \in 1..Len(events) : events[i].userId = u /\ events[i].type = "match_end"}

\* C2: when no request is in progress and no store outage happened, every
\* user with N recorded match_end events (distinct eventIds) has a Player
\* record whose totals.games is N, and every user with a recorded event has
\* a Player record with both counters defined.
C2_GamesCounter ==
    (~faultSeen /\ AllIdle)
    => \A u \in UserIds :
          (\E i \in 1..Len(events) : events[i].userId = u)
          => \E d \in PlayersOf(players, u) :
                /\ d.totals.games = Cardinality(MatchEnds(u))
                /\ d.totals.lessonSteps >= 0

\* C3: a request whose Event insert succeeded is always answered, with ok,
\* also when the Player update fails; the Event stays stored.
C3_UpdateFailureStillOk ==
    /\ \A e \in EventIds : hist[e].unanswered = 0
    /\ (last.op = "RecordEvent" => last.code # 0)

\* An event body one of whose required fields is absent.
MissingEventField(b) ==
    b.eventId = UNDEF \/ b.userId = UNDEF_NUM \/ b.type = UNDEF \/ b.ts = UNDEF_NUM

\* C8: a RecordEvent request is rejected with missing_fields only when one of
\* eventId, userId, type, ts is absent (whatever the values of those present),
\* an UpsertGameHeader or FinalizeGame request with a missing required field
\* is rejected, and a rejected request leaves events, players and games as
\* they were.
C8_ValidationByPresence ==
    [][/\ \A h \in Handlers : \A b \in EventBodies :
             RecordEventReject(h, b)
             => MissingEventField(b) /\ UNCHANGED <<events, players, games>>
       /\ \A g \in UpsertBodies :
             (~ValidHeader(g) /\ UpsertGameHeader(g, FALSE))
             => last'.code = 400 /\ UNCHANGED <<events, players, games>>
       /\ \A g \in FinalBodies :
             (~ValidFinal(g) /\ FinalizeGame(g, FALSE))
             => last'.code = 400 /\ UNCHANGED <<events, players, games>>]_vars

\* The header fields of record d are those of request body g.
HeaderIs(d, g) ==
    /\ d.variant = g.variant /\ d.mode = OrStr(g.mode, "pvp") /\ d.rated = g.rated
    /\ d.timeControl = OrNull(g.timeControl) /\ d.white = g.white
    /\ d.black = g.black /\ d.startFen = g.startFen

\* C4: a valid UpsertGameHeader leaves exactly one Game record for its
\* gameId, with the header fields of this call; on an existing record
\* createdAt and status stay what they were (so after two calls createdAt is
\* the first call's and status is still "running"), and a record it creates
\* gets createdAt = now and status "running".
C4_UpsertTwice ==
    [][\A g \in UpsertBodies :
          (last'.op = "UpsertGameHeader" /\ ValidHeader(g) /\ UpsertGameHeader(g, FALSE))
          => /\ Cardinality(GamesOf(games', g.gameId)) = 1
             /\ \A e \in GamesOf(games', g.gameId) :
                   /\ HeaderIs(e, g)
                   /\ e.updatedAt = now
                   /\ \A d \in GamesOf(games, g.gameId) :
                         e.createdAt = d.createdAt /\ e.status = d.status
                   /\ GamesOf(games, g.gameId) = {}
                      => e.createdAt = now /\ e.status = "running"]_vars

\* Game g1 was created by an upsert and upserted again later with the other
\* header.
C4_Witness ==
    /\ last = Response("UpsertGameHeader", 200, "ok")
    /\ \E d \in GamesOf(games, "g1") :
          /\ HeaderIs(d, [HeaderB EXCEPT !.gameId = "g1"])
          /\ d.status = "running"
          /\ d.createdAt < d.updatedAt

\* C5: a valid FinalizeGame is answered ok whether or not the Game record
\* exists, and leaves exactly one record for its gameId, with status
\* "finished", endAt = now, the result, moves and finalFen of this call and
\* the PDN of this call's moves and result cached; createdAt is now for a
\* record it creates and unchanged for one that existed.
C5_FinalizeOverwrites ==
    [][\A g \in FinalBodies :
          (last'.op = "FinalizeGame" /\ ValidFinal(g) /\ FinalizeGame(g, FALSE))
          => /\ last' = Response("FinalizeGame", 200, "ok")
             /\ Cardinality(GamesOf(games', g.gameId)) = 1
             /\ \A e \in GamesOf(games', g.gameId) :
                   /\ e.status = "finished" /\ e.endAt = now
                   /\ e.result = g.result /\ e.moves = g.moves
                   /\ e.finalFen = g.finalFen
                   /\ e.pdn.tags.Result = g.result
                   /\ e.pdn.text = TagText(e.pdn.tags) \o "\n\n"
                        \o Join(MovePairs(g.moves.plies, 1, 1) \o <<g.result>>)
                   /\ \A d \in GamesOf(games, g.gameId) : e.createdAt = d.createdAt
                   /\ GamesOf(games, g.gameId) = {} => e.createdAt = now]_vars

\* Game g1 was created by a finalize (it never got a startFen) and finalized
\* again later with the other result and moves.
C5_Witness ==
    /\ last = Response("FinalizeGame", 200, "ok")
    /\ \E d \in GamesOf(games, "g1") :
          /\ d.startFen = UNDEF
          /\ d.status = "finished"
          /\ d.result = FinalB.result /\ d.moves = FinalB.moves
          /\ d.createdAt < d.endAt

\* C6: ExportPDN leaves the games collection as it was; it answers 404 for an
\* unknown gameId, the cached text for a record that has one, and otherwise
\* the formatter's text for the stored record.
C6_ExportReadOnly ==
    [][\A gid \in GameIds :
          (last'.op = "ExportPDN" /\ ExportPDN(gid))
          => /\ games' = games
             /\ GamesOf(games, gid) = {} => last'.code = 404
             /\ \A d \in GamesOf(games, gid) :
                   /\ last'.code = 200
                   /\ TruthyStr(d.pdn.text) => last'.payload = d.pdn.text
                   /\ ~TruthyStr(d.pdn.text)
                      => last'.payload = generatePDN(d, now).text]_vars

\* An export was answered with the text computed for a record without cache.
C6_Witness ==
    /\ last.op = "ExportPDN" /\ last.code = 200
    /\ \E d \in games :
          /\ ~TruthyStr(d.pdn.text)
          /\ last.payload = generatePDN(d, now).text
    /\ \E d \in games : TruthyStr(d.pdn.text)

\* Record e carries the lifecycle and finalize-only fields of record d.
SameFinalized(d, e) ==
    /\ e.status = d.status /\ e.createdAt = d.createdAt /\ e.result = d.result
    /\ e.endReason = d.endReason /\ e.finalFen = d.finalFen /\ e.moves = d.moves
    /\ e.stats = d.stats /\ e.ratings = d.ratings /\ e.endAt = d.endAt
    /\ e.pdn = d.pdn

\* C9: no step takes a finished Game record back to "running" or deletes it,
\* and a step that ends with the response of an UpsertGameHeader (every
\* UpsertGameHeader step does) leaves status, createdAt and the finalize-only
\* fields of every existing record as they were.
C9_LifecycleMonotone ==
    [][/\ \A d \in games :
             d.status = "finished"
             => \E e \in games' : e.gameId = d.gameId /\ e.status = "finished"
       /\ last'.op = "UpsertGameHeader"
          => \A d \in games :
                \E e \in games' : e.gameId = d.gameId /\ SameFinalized(d, e)]_vars

\* A finished game whose header was upserted after it was finalized.
C9_Witness ==
    \E d \in games :
        /\ d.status = "finished"
        /\ d.endAt < d.updatedAt
        /\ d.startFen = HeaderB.startFen
        /\ d.result = "1-0"

HasCache(d) == TruthyStr(d.pdn.text)

\* The cached Result tag and movetext are the formatter's for the stored
\* result and moves.
ResultMovesCoherent(d) ==
    /\ d.pdn.tags.Result = PdnTags(d, now).Result
    /\ d.pdn.text = TagText(d.pdn.tags) \o "\n\n" \o Join(MoveTokens(d, now))

\* The cached White, Black and GameType tags are the formatter's for the
\* stored white, black and variant.
HeaderTagsCoherent(d) ==
    /\ d.pdn.tags.White = PdnTags(d, now).White
    /\ d.pdn.tags.Black = PdnTags(d, now).Black
    /\ d.pdn.tags.GameType = PdnTags(d, now).GameType

\* C10 as claimed: every cached pdn agrees, but for the Date tag, with the
\* formatter's output for the record as stored now.
C10_CacheCoherent ==
    \A d \in games : HasCache(d) => ResultMovesCoherent(d) /\ HeaderTagsCoherent(d)

\* C10 amended: the cached Result tag and movetext always agree with the
\* stored result and moves; the cached White, Black and GameType tags agree
\* with the stored white, black and variant after every FinalizeGame, and
\* only an UpsertGameHeader for that gameId ends that agreement.
C10_CacheCoherentUntilUpsert ==
    /\ [](\A d \in games : HasCache(d) => ResultMovesCoherent(d))
    /\ [][/\ \A g \in FinalBodies :
                (last'.op = "FinalizeGame" /\ ValidFinal(g) /\ FinalizeGame(g, FALSE))
                => \A e \in GamesOf(games', g.gameId) :
                      HasCache(e) /\ HeaderTagsCoherent(e)
          /\ \A e \in games' :
                (HasCache(e) /\ ~HeaderTagsCoherent(e))
                => \/ \E d \in GamesOf(games, e.gameId) :
                         HasCache(d) /\ ~HeaderTagsCoherent(d)
                   \/ \E g \in UpsertBodies :
                         /\ last'.op = "UpsertGameHeader" /\ g.gameId = e.gameId
                         /\ UpsertGameHeader(g, FALSE)]_vars

\* A record whose header was rewritten after the finalize: the cached White
\* tag is no longer the stored white's, the movetext still is the moves'.
C10_Witness ==
    \E d \in games :
        /\ HasCache(d)
        /\ ResultMovesCoherent(d)
        /\ d.pdn.tags.White # PdnTags(d, now).White

Range(f) == {f[i] : i \in DOMAIN f}
Formatted == pdnOut # NoOutput
InPlies == MovesOf(pdnIn)

\* C7 as claimed: the movetext ends at the first ply without notation, white
\* or black: no notation of a later ply is in it; its last token is the
\* Result tag ("*" when the result is unset), and it is "*" alone for an
\* empty move list with unset result.
C7_StopsAtFirstGap ==
    Formatted
    => /\ \A i \in 1..Len(InPlies) :
             (TruthyStr(InPlies[i]) /\ \E j \in 1..(i - 1) : ~TruthyStr(InPlies[j]))
             => InPlies[i] \notin Range(pdnOut.movetext)
       /\ pdnOut.movetext[Len(pdnOut.movetext)] = pdnOut.tags.Result
       /\ pdnOut.tags.Result = OrStr(pdnIn.result, "*")
       /\ (InPlies = <<>> /\ pdnIn.result = UNDEF) => pdnOut.movetext = <<"*">>

\* Ply i is emitted: it has notation, and so has every white ply up to it.
Emitted(i) ==
    /\ TruthyStr(InPlies[i])
    /\ \A j \in 1..i : j % 2 = 1 => TruthyStr(InPlies[j])

\* Where the notation of an emitted ply stands in the movetext: after the
\* emitted plies before it and one number token per pair up to its own.
TokenOf(i) == Cardinality({j \in 1..i : Emitted(j)}) + (i + 1) \div 2

\* C7 amended: the movetext ends at the first WHITE ply without notation; a
\* black ply without notation only leaves its half of the pair out.  Every
\* ply with notation before that white ply is in the movetext, in order, each
\* white one right after its pair's number (1, 2, ... without a gap), no
\* other ply is, and the last token is the Result tag ("*" when unset).
C7_StopsAtFirstWhiteGap ==
    Formatted
    => /\ Len(pdnOut.movetext) =
             Cardinality({i \in 1..Len(InPlies) : Emitted(i)})
             + Cardinality({i \in 1..Len(InPlies) : Emitted(i) /\ i % 2 = 1}) + 1
       /\ \A i \in 1..Len(InPlies) :
             /\ Emitted(i) => pdnOut.movetext[TokenOf(i)] = InPlies[i]
             /\ (Emitted(i) /\ i % 2 = 1)
                => pdnOut.movetext[TokenOf(i) - 1] = ToString((i + 1) \div 2) \o "."
             /\ (TruthyStr(InPlies[i]) /\ ~Emitted(i))
                => InPlies[i] \notin Range(pdnOut.movetext)
       /\ pdnOut.movetext[Len(pdnOut.movetext)] = pdnOut.tags.Result
       /\ pdnOut.tags.Result = OrStr(pdnIn.result, "*")
       /\ (InPlies = <<>> /\ pdnIn.result = UNDEF) => pdnOut.movetext = <<"*">>

\* A move list whose second ply is null was formatted, and the third ply's
\* notation is in the movetext under move number 2.
C7_Witness ==
    /\ Formatted
    /\ Len(InPlies) >= 3
    /\ ~TruthyStr(InPlies[2])
    /\ pdnOut.movetext = <<"1.", "m1", "2.", "m3", pdnOut.tags.Result>>

====
